---------------------------- MODULE Spec2Model ----------------------------
(***************************************************************************)
(* Robustness intervals for expectation values measured on an approximate *)
(* state (tequila tutorial "Robust Interval Guarantee for Quantum          *)
(* Measurements on Approximate States").                                   *)
(*                                                                         *)
(* The notebook states the three closed-form bounds and their validity     *)
(* ranges in its markdown cells and calls                                  *)
(* tequila.apps.robustness.robustness_interval, whose body is not part of  *)
(* the notebook.  The formulas below are translated from the notebook's    *)
(* cells; the argument validation and the error taxonomy of the calculator *)
(* are not in the notebook and are modelled from the written               *)
(* specification (sections 4.1 and 7).                                     *)
(*                                                                         *)
(* Numbers.  Inputs lie on a grid of step 1/Scale: mean = meanN/Scale,     *)
(* epsilon = epsN/Scale, mean_sq = meansqN/Scale^2.  A rational is a pair  *)
(* <<n, d>> with d > 0.  A bound is the exact real number                  *)
(*        rat[1]/rat[2] + sgn * sqrt(rad[1]/rad[2])                        *)
(* kept as a record, so that a square root is never rounded: comparisons   *)
(* are decided by squaring.                                                *)
(***************************************************************************)
EXTENDS Integers, Sequences, FiniteSets, TLC

\* Grid denominator of the inputs.
Scale == 4
\* Means reach from -(1 + MeanOver/Scale) to 1 + MeanOver/Scale.
MeanOver == 1
\* Epsilons reach from -EpsOver/Scale to 1 + EpsOver/Scale.
EpsOver == 1
\* The second moment reaches from mean^2 - 1/Scale^2 (a negative raw
\* variance) to mean^2 + VarOver/Scale^2.
VarOver == 2

MeanNums == (0 - Scale - MeanOver)..(Scale + MeanOver)
EpsNums == (0 - EpsOver)..(Scale + EpsOver)
VarNums == (0 - 1)..VarOver
\* Longest sequence of intervals handed to the aggregator.
MaxSamples == 3

Kinds == {"expectation-value", "gramian-expectation", "gramian-eigenvalue"}

\* comp names the part of the notebooks a behaviour runs: one behaviour
\* runs one part; the variables of the other parts keep their idle values.
VARIABLES comp, kind, meanN, meansqN, epsN, pc, out, prev,
          intervals, confN, sided, aprev, sampler, variance, ansatz,
          bound, cell, stmt, errors

calcVars == <<kind, meanN, meansqN, epsN, prev>>

aggVars == <<intervals, confN, sided, aprev>>

\* The kernel: the bound names, the position in the cells, the NameErrors.
nbVars == <<bound, cell, stmt, errors>>

vars == <<comp, kind, meanN, meansqN, epsN, pc, out, prev,
          intervals, confN, sided, aprev, sampler, variance, ansatz,
          bound, cell, stmt, errors>>

-----------------------------------------------------------------------------
(* Exact arithmetic on rationals <<n, d>>, d > 0.                          *)

Abs(n) == IF n < 0 THEN 0 - n ELSE n

RECURSIVE GCD(_, _)
GCD(a, b) == IF b = 0 THEN a ELSE GCD(b, a % b)

\* Lowest terms, so that cross-multiplications stay small.
Norm(p) ==
    LET g == GCD(Abs(p[1]), p[2])
    IN  <<p[1] \div g, p[2] \div g>>

\* Cross-multiplication by the denominators' cofactors only.
RatLeq(p, q) ==
    LET g == GCD(p[2], q[2])
    IN  p[1] * (q[2] \div g) <= q[1] * (p[2] \div g)

RatLt(p, q) ==
    LET g == GCD(p[2], q[2])
    IN  p[1] * (q[2] \div g) < q[1] * (p[2] \div g)

RatEq(p, q) ==
    LET g == GCD(p[2], q[2])
    IN  p[1] * (q[2] \div g) = q[1] * (p[2] \div g)

RatSub(p, q) == Norm(<<p[1] * q[2] - q[1] * p[2], p[2] * q[2]>>)

RatAdd(p, q) == Norm(<<p[1] * q[2] + q[1] * p[2], p[2] * q[2]>>)

RatMul(p, q) == Norm(<<p[1] * q[1], p[2] * q[2]>>)

\* p / q for q # 0.
RatDiv(p, q) ==
    IF q[1] < 0
    THEN Norm(<<0 - p[1] * q[2], 0 - p[2] * q[1]>>)
    ELSE Norm(<<p[1] * q[2], p[2] * q[1]>>)

RatMax(p, q) == IF RatLeq(p, q) THEN q ELSE p

RatSq(p) == RatMul(p, p)

Zero == <<0, 1>>

(* A real number  rat + sgn * sqrt(rad);  inf = TRUE stands for +infinity, *)
(* nan = TRUE for the square root of a negative number.                    *)
Real(rat, sgn, rad) ==
    [rat |-> rat, sgn |-> sgn, rad |-> rad, inf |-> FALSE, nan |-> rad[1] < 0]

Exact(rat) == Real(rat, 1, Zero)

PlusInfinity ==
    [rat |-> Zero, sgn |-> 1, rad |-> Zero, inf |-> TRUE, nan |-> FALSE]

\* 0/0, as numpy yields it for the variance of fewer than ddof + 1 values.
NotANumber ==
    [rat |-> Zero, sgn |-> 1, rad |-> Zero, inf |-> FALSE, nan |-> TRUE]

\* x <= p  for a real x and a rational p:  sgn * sqrt(rad) <= p - rat.
RealLeqRat(x, p) ==
    LET t == RatSub(p, x.rat)
    IN  /\ ~x.inf
        /\ ~x.nan
        /\ IF x.sgn = 1
           THEN t[1] >= 0 /\ RatLeq(x.rad, RatSq(t))
           ELSE t[1] >= 0 \/ RatLeq(RatSq(t), x.rad)

\* p <= x  for a rational p and a real x:  p - rat <= sgn * sqrt(rad).
RatLeqReal(p, x) ==
    LET t == RatSub(p, x.rat)
    IN  /\ ~x.nan
        /\ \/ x.inf
           \/ IF x.sgn = 1
              THEN t[1] <= 0 \/ RatLeq(RatSq(t), x.rad)
              ELSE t[1] <= 0 /\ RatLeq(x.rad, RatSq(t))

RealEqRat(x, p) == RealLeqRat(x, p) /\ RatLeqReal(p, x)

\* 0 <= r + c1 * sqrt(b1) + c2 * sqrt(b2)  for c1, c2 in {-1, 1} and
\* b1, b2 >= 0, decided by squaring twice; k = r^2 - b1 - b2.
NonNegSum(r, c1, b1, c2, b2) ==
    LET k == RatSub(RatSq(r), RatAdd(b1, b2))
        bb == RatMul(<<4, 1>>, RatMul(b1, b2))
    IN  IF c1 = 1 /\ c2 = 1
        THEN r[1] >= 0 \/ k[1] <= 0 \/ RatLeq(RatSq(k), bb)
        ELSE IF c1 = 0 - 1 /\ c2 = 0 - 1
        THEN r[1] >= 0 /\ k[1] >= 0 /\ RatLeq(bb, RatSq(k))
        ELSE LET pos == IF c1 = 1 THEN b1 ELSE b2
                 neg == IF c1 = 1 THEN b2 ELSE b1
             IN  IF RatLeq(neg, pos)
                 THEN r[1] >= 0 \/ (k[1] <= 0 /\ RatLeq(bb, RatSq(k)))
                 ELSE r[1] > 0 /\ (k[1] >= 0 \/ RatLeq(RatSq(k), bb))

\* x <= y  for two reals:  0 <= (y.rat - x.rat) + y.sgn sqrt(y.rad)
\*                                              - x.sgn sqrt(x.rad).
RealLeqReal(x, y) ==
    /\ ~x.nan
    /\ ~y.nan
    /\ ~x.inf
    /\ \/ y.inf
       \/ NonNegSum(RatSub(y.rat, x.rat), y.sgn, y.rad, 0 - x.sgn, x.rad)

-----------------------------------------------------------------------------
(* The inputs as rationals.                                                *)

Mean(m) == Norm(<<m, Scale>>)

Epsilon(e) == Norm(<<e, Scale>>)

MeanSq(q) == Norm(<<q, Scale * Scale>>)

One == <<1, 1>>

Two == <<2, 1>>

Four == <<4, 1>>

-----------------------------------------------------------------------------
(* Outcomes of a call: the triple (lower, point_estimate, upper), or one   *)
(* error.  An OutOfRangeError carries the side that failed and the maximum *)
(* permissible epsilon of that side.                                       *)

NoBound == Exact(Zero)

NoOutcome ==
    [tag |-> "none", error |-> "none", side |-> "none", max_epsilon |-> Zero,
     lower |-> NoBound, point_estimate |-> NoBound, upper |-> NoBound]

Ok(lower, point_estimate, upper) ==
    [tag |-> "ok", error |-> "none", side |-> "none", max_epsilon |-> Zero,
     lower |-> lower, point_estimate |-> point_estimate, upper |-> upper]

Err(error, side, max_epsilon) ==
    [tag |-> "error", error |-> error, side |-> side,
     max_epsilon |-> max_epsilon,
     lower |-> NoBound, point_estimate |-> NoBound, upper |-> NoBound]

ValidationError == Err("ValidationError", "none", Zero)

DomainError == Err("DomainError", "none", Zero)

OutOfRangeError(side, max_epsilon) == Err("OutOfRangeError", side, max_epsilon)

\* What the arithmetic itself does when no check stopped it: a division by
\* zero.  Not an error of the calculator's taxonomy.
ZeroDivisionError == Err("ZeroDivisionError", "none", Zero)

\* Slip: the lower bound is returned in the place of the point estimate.
TripleBoundAsPoint(lower, m, upper) == Ok(lower, lower, upper)

\* The triple robustness_interval returns: (lower_bound, vqe_energy,
\* upper_bound), the middle one being the measured first moment.
Triple(lower, m, upper) == Ok(lower, Exact(Mean(m)), upper)

-----------------------------------------------------------------------------
(* Common contract: epsilon in [0, 1], checked before any arithmetic.      *)

\* Slip: only the upper end of the range is checked.
ValidEpsilonUpperOnly(e) == RatLeq(Epsilon(e), One)

ValidEpsilon(e) == RatLeq(Zero, Epsilon(e)) /\ RatLeq(Epsilon(e), One)

-----------------------------------------------------------------------------
(* Method "expectation-value": bounded observable, -1 <= A <= 1.           *)

\* Slip: no clamp.
ClampDropped(x) == x

\* max(0, x): the clamp that keeps a radicand non-negative.
ClampNonNeg(x) == RatMax(Zero, x)

\* Slip: 1 - 2 eps <A>, the parentheses lost.
CenterPrecedenceSlip(m, e) ==
    RatSub(One, RatMul(RatMul(Two, Epsilon(e)), Mean(m)))

\* (1 - 2 eps) <A>
Center(m, e) == RatMul(RatSub(One, RatMul(Two, Epsilon(e))), Mean(m))

\* Slip: eps (1 - 2 eps) (1 - <A>^2), the factor of the centre reused.
RadicandWrongFactor(m, e) ==
    RatMul(RatMul(Epsilon(e), RatSub(One, RatMul(Two, Epsilon(e)))),
           ClampNonNeg(RatSub(One, RatSq(Mean(m)))))

\* eps (1 - eps) (1 - <A>^2)
Radicand(m, e) ==
    RatMul(RatMul(Epsilon(e), RatSub(One, Epsilon(e))),
           ClampNonNeg(RatSub(One, RatSq(Mean(m)))))

\* Slip: the factor 2 of the radius taken twice, (4 sqrt(x))^2 = 16 x.
RadiusSqFactorTwice(m, e) == RatMul(<<16, 1>>, Radicand(m, e))

\* (2 sqrt(x))^2 = 4 x
RadiusSq(m, e) == RatMul(Four, Radicand(m, e))

\* Slip: the threshold of the lower side used for the upper side.
UpperMaxEpsilonSignSlip(m) == RatDiv(RatAdd(One, Mean(m)), Two)

\* The upper bound holds for eps <= (1 - <A>)/2.
UpperMaxEpsilon(m) == RatDiv(RatSub(One, Mean(m)), Two)

\* Slip: 1 + <A>, the halving lost.
LowerMaxEpsilonUnhalved(m) == RatAdd(One, Mean(m))

\* The lower bound holds for eps <= (1 + <A>)/2.
LowerMaxEpsilon(m) == RatDiv(RatAdd(One, Mean(m)), Two)

\* Slip: centre + radius on the lower side.
ExpectationLowerSignSlip(m, e) == Real(Center(m, e), 1, RadiusSq(m, e))

ExpectationLower(m, e) == Real(Center(m, e), 0 - 1, RadiusSq(m, e))

ExpectationUpper(m, e) == Real(Center(m, e), 1, RadiusSq(m, e))

ExpectationValueInterval(m, e) ==
    IF ~ValidEpsilon(e) THEN ValidationError
    ELSE IF RatLt(UpperMaxEpsilon(m), Epsilon(e))
         THEN OutOfRangeError("upper", UpperMaxEpsilon(m))
    ELSE IF RatLt(LowerMaxEpsilon(m), Epsilon(e))
         THEN OutOfRangeError("lower", LowerMaxEpsilon(m))
    ELSE Triple(ExpectationLower(m, e), m, ExpectationUpper(m, e))

-----------------------------------------------------------------------------
(* The variance <A^2> - <A>^2 of the two Gramian methods.                  *)

\* Slip: <A^2> - <A>, the square lost.
RawVarianceUnsquared(m, q) == RatSub(MeanSq(q), Mean(m))

RawVariance(m, q) == RatSub(MeanSq(q), RatSq(Mean(m)))

Variance(m, q) == ClampNonNeg(RawVariance(m, q))

-----------------------------------------------------------------------------
(* Method "gramian-expectation": A >= 0, lower bound only.                 *)

\* Slip: mean >= 0 accepted.
NonNegativeMean(m) == RatLeq(Zero, Mean(m))

PositiveMean(m) == RatLt(Zero, Mean(m))

\* (1 - 2 eps) <A> + eps <A^2> / <A>, the part without a square root.
GramianExpectationRational(m, q, e) ==
    RatAdd(Center(m, e), RatDiv(RatMul(Epsilon(e), MeanSq(q)), Mean(m)))

\* (2 sqrt(eps (1 - eps)) sqrt(variance))^2
GramianExpectationRadiusSq(m, q, e) ==
    RatMul(Four, RatMul(RatMul(Epsilon(e), RatSub(One, Epsilon(e))),
                        Variance(m, q)))

\* Slip: the square-root term is added.
GramianExpectationLowerSignSlip(m, q, e) ==
    Real(GramianExpectationRational(m, q, e), 1,
         GramianExpectationRadiusSq(m, q, e))

GramianExpectationLower(m, q, e) ==
    Real(GramianExpectationRational(m, q, e), 0 - 1,
         GramianExpectationRadiusSq(m, q, e))

\* Slip: the method's own precondition checked before the common one.
GramianExpectationBoundMeanFirst(m, q, e) ==
    IF ~PositiveMean(m) THEN DomainError
    ELSE IF ~ValidEpsilon(e) THEN ValidationError
    ELSE Triple(GramianExpectationLower(m, q, e), m, PlusInfinity)

GramianExpectationBound(m, q, e) ==
    IF ~ValidEpsilon(e) THEN ValidationError
    ELSE IF ~PositiveMean(m) THEN DomainError
    \* eps <A^2> / <A> divides by the mean
    ELSE IF m = 0 THEN ZeroDivisionError
    ELSE Triple(GramianExpectationLower(m, q, e), m, PlusInfinity)

-----------------------------------------------------------------------------
(* Method "gramian-eigenvalue": the target is an eigenstate of A.          *)
(* Delta A is taken as the standard deviation sqrt(variance), as in the    *)
(* written specification; the notebook's cell calls <A^2> - <A>^2 itself   *)
(* Delta A.  The two readings agree on whether the width is zero.          *)

\* Slip: epsilon <= 1 accepted.
EpsilonAtMostOne(e) == RatLeq(Epsilon(e), One)

EpsilonBelowOne(e) == RatLt(Epsilon(e), One)

\* (sqrt(variance) sqrt(eps / (1 - eps)))^2
WidthSq(m, q, e) ==
    RatMul(Variance(m, q), RatDiv(Epsilon(e), RatSub(One, Epsilon(e))))

EigenvalueLower(m, q, e) == Real(Mean(m), 0 - 1, WidthSq(m, q, e))

EigenvalueUpper(m, q, e) == Real(Mean(m), 1, WidthSq(m, q, e))

GramianEigenvalueInterval(m, q, e) ==
    IF ~ValidEpsilon(e) THEN ValidationError
    ELSE IF ~EpsilonBelowOne(e) THEN DomainError
    \* eps / (1 - eps) divides by 1 - eps
    ELSE IF e = Scale THEN ZeroDivisionError
    ELSE Triple(EigenvalueLower(m, q, e), m, EigenvalueUpper(m, q, e))

-----------------------------------------------------------------------------
(* Dispatch on the kind of observable.                                     *)

robustness_interval(k, m, q, e) ==
    CASE k = "expectation-value" -> ExpectationValueInterval(m, e)
      [] k = "gramian-expectation" -> GramianExpectationBound(m, q, e)
      [] k = "gramian-eigenvalue" -> GramianEigenvalueInterval(m, q, e)

-----------------------------------------------------------------------------
(* Statistics of the repeated noisy trials: the sample mean, the unbiased  *)
(* sample variance and the Student-t widening of the mean bounds.          *)

\* A trial's interval is a triple of grid values (lower, mid, upper).
Value(x) == <<x, 1>>

\* Slip: the upper endpoints are read for the lower ones.
LowersWrongIndex(ivs) == [i \in 1..Len(ivs) |-> Value(ivs[i][3])]

\* [interval[0] for interval in intervals], and likewise [1] and [2]
Lowers(ivs) == [i \in 1..Len(ivs) |-> Value(ivs[i][1])]

Mids(ivs) == [i \in 1..Len(ivs) |-> Value(ivs[i][2])]

Uppers(ivs) == [i \in 1..Len(ivs) |-> Value(ivs[i][3])]

\* xs[lo] + ... + xs[hi], by halves
RECURSIVE SumFromTo(_, _, _)
SumFromTo(xs, lo, hi) ==
    IF lo > hi THEN Zero
    ELSE IF lo = hi THEN xs[lo]
    ELSE LET half == (lo + hi) \div 2
         IN  RatAdd(SumFromTo(xs, lo, half), SumFromTo(xs, half + 1, hi))

Sum(xs) == SumFromTo(xs, 1, Len(xs))

\* np.mean(xs), for a non-empty xs
SampleMean(xs) == RatDiv(Sum(xs), <<Len(xs), 1>>)

\* Slip: deviations from the first value, not from the mean.
SquaredDeviationsFromFirst(xs) ==
    [i \in 1..Len(xs) |-> RatSq(RatSub(xs[i], xs[1]))]

SquaredDeviations(xs) ==
    [i \in 1..Len(xs) |-> RatSq(RatSub(xs[i], SampleMean(xs)))]

\* np.var(xs, ddof=1), for at least two values
SampleVar(xs) == RatDiv(Sum(SquaredDeviations(xs)), <<Len(xs) - 1, 1>>)

\* stats.t.ppf(q, df) for q >= 1/2, q in thousandths: the Student-t
\* quantile, tabulated to the nearest eighth.
TUpper(q, df) ==
    CASE q = 550 -> <<1, 8>>
      [] q = 900 /\ df = 1 -> <<25, 8>>
      [] q = 900 /\ df = 2 -> <<15, 8>>
      [] q = 900 /\ df = 3 -> <<13, 8>>
      [] q = 900 /\ df = 4 -> <<3, 2>>
      [] q = 900 /\ df = 29 -> <<5, 4>>
      [] q = 950 /\ df = 1 -> <<51, 8>>
      [] q = 950 /\ df = 2 -> <<23, 8>>
      [] q = 950 /\ df = 3 -> <<19, 8>>
      [] q = 950 /\ df = 4 -> <<17, 8>>
      [] q = 950 /\ df = 29 -> <<7, 4>>
      [] q = 990 /\ df = 1 -> <<255, 8>>
      [] q = 990 /\ df = 2 -> <<7, 1>>
      [] q = 990 /\ df = 3 -> <<9, 2>>
      [] q = 990 /\ df = 4 -> <<15, 4>>
      [] q = 990 /\ df = 29 -> <<5, 2>>

\* stats.t.ppf(q, df): the distribution is symmetric about 0.
TPpf(q, df) ==
    IF q >= 500
    THEN TUpper(q, df)
    ELSE LET t == TUpper(1000 - q, df) IN <<0 - t[1], t[2]>>

\* (np.sqrt(var / n) * t)^2
MarginSq(xs, n, t) == RatMul(RatSq(t), RatDiv(SampleVar(xs), <<n, 1>>))

\* Slip: the margin is added to the mean of the lower bounds.
ConfidenceLowerSignSlip(xs, n, t) ==
    IF Len(xs) < 2 THEN NotANumber
    ELSE Real(SampleMean(xs), IF t[1] >= 0 THEN 1 ELSE 0 - 1,
              MarginSq(xs, n, t))

\* lower_bound_mean - np.sqrt(lower_bound_var / n) * t
ConfidenceLower(xs, n, t) ==
    IF Len(xs) < 2 THEN NotANumber
    ELSE Real(SampleMean(xs), IF t[1] >= 0 THEN 0 - 1 ELSE 1,
              MarginSq(xs, n, t))

\* Slip: the margin is subtracted from the mean of the upper bounds.
ConfidenceUpperSignSlip(xs, n, t) ==
    IF Len(xs) < 2 THEN NotANumber
    ELSE Real(SampleMean(xs), IF t[1] >= 0 THEN 0 - 1 ELSE 1,
              MarginSq(xs, n, t))

\* upper_bound_mean + np.sqrt(upper_bound_var / n) * t
ConfidenceUpper(xs, n, t) ==
    IF Len(xs) < 2 THEN NotANumber
    ELSE Real(SampleMean(xs), IF t[1] >= 0 THEN 1 ELSE 0 - 1,
              MarginSq(xs, n, t))

-----------------------------------------------------------------------------
(* The noisy-VQE cell: 30 trials, then the 99% bounds with 29 degrees of   *)
(* freedom.                                                                *)

\* Slip: one trial short of the divisor.
NumTrialsOneShort == 30 - 1

\* for _ in range(30)
NumTrials == 30

\* np.sqrt(lower_bound_var / 30)
Divisor == 30

\* stats.t.ppf(q=0.99, df=29)
DegreesOfFreedom == 29

CellQuantile == 990

\* (lower_bound, vqe_energy, upper_bound) of the cell
CellStatistics(ivs) ==
    Ok(ConfidenceLower(Lowers(ivs), Divisor,
                       TPpf(CellQuantile, DegreesOfFreedom)),
       Exact(SampleMean(Mids(ivs))),
       ConfidenceUpper(Uppers(ivs), Divisor,
                       TPpf(CellQuantile, DegreesOfFreedom)))

-----------------------------------------------------------------------------
(* ConfidenceAggregator.aggregate(intervals, confidence_level): the cell's *)
(* statistics for any number of trials and any confidence level, one-sided *)
(* as in the cell or two-sided.  Confidence levels are in percent.         *)

InsufficientSamplesError == Err("InsufficientSamplesError", "none", Zero)

\* Slip: one interval passes for a sample.
EnoughSamplesOne(ivs) == Len(ivs) >= 1

EnoughSamples(ivs) == Len(ivs) >= 2

\* A confidence level is a probability strictly between 0 and 1.
ValidConfidence(c) == 0 < c /\ c < 100

\* The quantile, in thousandths: the level itself when one-sided,
\* (1 + level)/2 when two-sided.
Quantile(c, s) == IF s = "one-sided" THEN 10 * c ELSE 5 * (100 + c)

CriticalValue(c, s, df) == TPpf(Quantile(c, s), df)

aggregate(ivs, c, s) ==
    IF ~EnoughSamples(ivs) THEN InsufficientSamplesError
    ELSE IF ~ValidConfidence(c) THEN ValidationError
    ELSE Ok(ConfidenceLower(Lowers(ivs), Len(ivs),
                            CriticalValue(c, s, Len(ivs) - 1)),
            Exact(SampleMean(Mids(ivs))),
            ConfidenceUpper(Uppers(ivs), Len(ivs),
                            CriticalValue(c, s, Len(ivs) - 1)))

-----------------------------------------------------------------------------
(* The first notebook's cell "VQE: Other Methods".                         *)

\* V = E**2 - tq.ExpectationValue(H=H**2, U=U), at the optimized variables
OtherMethodsVariance(m, q) == RatSub(RatSq(Mean(m)), MeanSq(q))

-----------------------------------------------------------------------------
(* The code cells of the Madness-interface notebook, run once each from    *)
(* top to bottom in a fresh kernel.  A statement is its line, the names it *)
(* reads and the names it binds; a loop is its header, which binds the     *)
(* loop variable, followed by its body.                                    *)

Statement(line, reads, writes) ==
    [line |-> line, reads |-> reads, writes |-> writes]

\* lines 94-103
AFirstExample ==
    <<Statement(94, {}, {"tq"}),
      Statement(95, {}, {"time"}),
      Statement(97, {}, {"geometry"}),
      Statement(98, {"time"}, {"start"}),
      Statement(99, {"tq", "geometry"}, {"h2_2_4"}),
      Statement(100, {"time", "start"}, {}),
      Statement(101, {"h2_2_4"}, {"H"}),
      Statement(102, {"H"}, {}),
      Statement(103, {"h2_2_4"}, {})>>

\* lines 141-145
SeparablePairApproximation ==
    <<Statement(141, {"h2_2_4"}, {"H"}),
      Statement(142, {"h2_2_4"}, {"U"}),
      Statement(143, {"tq", "H", "U"}, {"E"}),
      Statement(144, {"tq", "E"}, {"result"}),
      Statement(145, {"mol", "H", "result"}, {})>>

\* lines 175-186
OtherMethods ==
    <<Statement(175, {"mol"}, {"U1"}),
      Statement(176, {"tq"}, {"U2"}),
      Statement(177, {"U1", "U2"}, {"U"}),
      Statement(178, {"tq", "H", "U"}, {"E"}),
      Statement(179, {"tq", "E"}, {"result"}),
      Statement(180, {"E", "tq", "H", "U"}, {"V"}),
      Statement(182, {"tq", "V"}, {"V"}),
      Statement(184, {"V", "result"}, {"variance"}),
      Statement(185, {"result"}, {}),
      Statement(186, {"variance"}, {})>>

\* lines 217-218
MoreOrbitalsMolecules ==
    <<Statement(217, {"tq", "geometry"}, {"h2_2_6"}),
      Statement(218, {"tq", "geometry"}, {"h2_2_8"})>>

\* lines 237-243
MoreOrbitalsLoop ==
    <<Statement(237, {"h2_2_4", "h2_2_6", "h2_2_8"}, {"mol"}),
      Statement(238, {"mol"}, {"H"}),
      Statement(239, {"mol"}, {"U"}),
      Statement(240, {"tq", "H", "U"}, {"E"}),
      Statement(241, {"tq", "E"}, {"result"}),
      Statement(242, {"mol"}, {"fci"}),
      Statement(243, {"H", "result", "fci"}, {})>>

\* lines 275-282
BasisSets ==
    <<Statement(275, {}, {"basis_set"}),
      Statement(276, {"tq", "geometry", "basis_set"}, {"mol"}),
      Statement(277, {"mol"}, {"H"}),
      Statement(278, {"mol"}, {"U"}),
      Statement(279, {"tq", "H", "U"}, {"E"}),
      Statement(280, {"tq", "E"}, {"result"}),
      Statement(281, {"mol"}, {"fci"}),
      Statement(282, {"H", "result", "fci"}, {})>>

\* lines 324-330
BeH2Molecule ==
    <<Statement(324, {}, {"beh2_geom"}),
      Statement(325, {"tq", "beh2_geom"}, {"beh2_4_8_15"}),
      Statement(326, {"beh2_4_8_15"}, {"H1"}),
      Statement(328, {"beh2_4_8_15"}, {}),
      Statement(329, {"beh2_4_8_15"}, {}),
      Statement(330, {"H1"}, {})>>

\* lines 357-364
BeH2Short ==
    <<Statement(357, {"beh2_4_8_15"}, {"U"}),
      Statement(358, {"beh2_4_8_15"}, {"H"}),
      Statement(359, {"tq", "H", "U"}, {"E"}),
      Statement(360, {"tq", "E"}, {"result"}),
      Statement(361, {"beh2_4_8_15"}, {"fci"}),
      Statement(364, {"fci", "result"}, {})>>

\* lines 392-400
BeH2Stretched ==
    <<Statement(392, {"tq", "beh2_geom"}, {"beh2_4_8_45"}),
      Statement(393, {"beh2_4_8_45"}, {"H"}),
      Statement(394, {"beh2_4_8_45"}, {"U"}),
      Statement(395, {"tq", "H", "U"}, {"E"}),
      Statement(396, {"tq", "E"}, {"result"}),
      Statement(397, {"beh2_4_8_45"}, {"fci"}),
      Statement(400, {"fci", "result"}, {})>>

\* lines 425-426
OrbitalOptimization ==
    <<Statement(425, {"tq", "U", "beh2_4_8_45"}, {"opt"}),
      Statement(426, {"fci", "opt"}, {})>>

\* lines 473-482
ReadData ==
    <<Statement(473, {}, {"tq"}),
      Statement(474, {"tq"}, {"mol1"}),
      Statement(478, {}, {"os"}),
      Statement(479, {"os"}, {}),
      Statement(481, {"tq"}, {"mol2"}),
      Statement(482, {"mol2"}, {})>>

\* lines 512-512
CustomParameters ==
    <<Statement(512, {"tq"}, {"mol"})>>

Cells ==
    <<AFirstExample,
      SeparablePairApproximation,
      OtherMethods,
      MoreOrbitalsMolecules,
      MoreOrbitalsLoop,
      BasisSets,
      BeH2Molecule,
      BeH2Short,
      BeH2Stretched,
      OrbitalOptimization,
      ReadData,
      CustomParameters>>

\* The names a statement reads that the kernel has not bound.
Unbound(statement, names) == statement.reads \ names

-----------------------------------------------------------------------------
(* The five parts.  Each behaviour runs one of them from its first state.  *)

NoPrev == [set |-> FALSE, epsN |-> 0, out |-> NoOutcome]

NoAPrev ==
    [set |-> FALSE, intervals |-> <<>>, confN |-> 0, sided |-> "none",
     out |-> NoOutcome]

\* The intervals a noisy trial can yield.
TrialResults == {<<0, 1, 2>>, <<1, 1, 1>>, <<0, 2, 3>>, <<1, 2, 3>>}

\* Confidence levels in percent; 0 and 100 are not probabilities in (0, 1).
ConfLevels == {0, 10, 90, 100}

Sides == {"one-sided", "two-sided"}

\* The noise of the cell's trials: odd trials yield the first interval of
\* the pair, even trials the second.
Samplers == TrialResults \X TrialResults

Sample(sm, i) == IF i % 2 = 1 THEN sm[1] ELSE sm[2]

IdleCalculator ==
    /\ kind = "none"
    /\ epsN = 0
    /\ prev = NoPrev

IdleMoments ==
    /\ meanN = 0
    /\ meansqN = 0

IdleAggregator ==
    /\ confN = 0
    /\ sided = "none"
    /\ aprev = NoAPrev

InitCalculator ==
    /\ comp = "calculator"
    /\ kind \in Kinds
    /\ meanN \in MeanNums
    /\ \E v \in VarNums : meansqN = meanN * meanN + v
    /\ epsN \in EpsNums
    /\ pc = "ready"
    /\ prev = NoPrev
    /\ intervals = <<>>
    /\ IdleAggregator
    /\ sampler = <<>>
    /\ ansatz = "none"

InitAggregator ==
    /\ comp = "aggregator"
    /\ intervals = <<>>
    /\ confN \in ConfLevels
    /\ sided \in Sides
    /\ aprev = NoAPrev
    /\ pc = "collect"
    /\ IdleCalculator
    /\ IdleMoments
    /\ sampler = <<>>
    /\ ansatz = "none"

InitNoisyCell ==
    /\ comp = "noisy-cell"
    /\ intervals = <<>>
    /\ sampler \in Samplers
    /\ pc = "loop"
    /\ IdleCalculator
    /\ IdleMoments
    /\ IdleAggregator
    /\ ansatz = "none"

\* The moments of H on the optimized state: an exact simulation, so the
\* second moment is at least the squared first moment.
InitOtherMethods ==
    /\ comp = "other-methods"
    /\ ansatz = "U1"
    /\ meanN \in MeanNums
    /\ \E v \in 0..VarOver : meansqN = meanN * meanN + v
    /\ pc = "minimized"
    /\ IdleCalculator
    /\ intervals = <<>>
    /\ IdleAggregator
    /\ sampler = <<>>

IdleNotebook ==
    /\ bound = {}
    /\ cell = 0
    /\ stmt = 0
    /\ errors = <<>>

\* A fresh kernel before the first statement of the first cell.
InitNotebook ==
    /\ comp = "notebook"
    /\ bound = {}
    /\ cell = 1
    /\ stmt = 1
    /\ errors = <<>>
    /\ pc = "cells"
    /\ IdleCalculator
    /\ IdleMoments
    /\ intervals = <<>>
    /\ IdleAggregator
    /\ sampler = <<>>
    /\ ansatz = "none"

Init ==
    /\ out = NoOutcome
    /\ variance = Zero
    /\ \/ InitCalculator /\ IdleNotebook
       \/ InitAggregator /\ IdleNotebook
       \/ InitNoisyCell /\ IdleNotebook
       \/ InitOtherMethods /\ IdleNotebook
       \/ InitNotebook

(* The calculator: one call, then possibly a second one with the same      *)
(* moments and another epsilon.                                            *)

Call ==
    /\ pc = "ready"
    /\ out' = robustness_interval(kind, meanN, meansqN, epsN)
    /\ pc' = "done"
    /\ UNCHANGED <<comp, nbVars, calcVars, aggVars, sampler, variance, ansatz>>

CallAgain ==
    /\ pc = "done"
    /\ ~prev.set
    /\ \E e \in EpsNums : epsN' = e
    /\ prev' = [set |-> TRUE, epsN |-> epsN, out |-> out]
    /\ out' = NoOutcome
    /\ pc' = "ready"
    /\ UNCHANGED <<comp, nbVars, kind, meanN, meansqN, aggVars, sampler,
                   variance, ansatz>>

(* The aggregator: trials are collected, then aggregated; the same trials  *)
(* may then be aggregated once more in another completion order, with one  *)
(* trial's outcome replaced, or at another confidence level.               *)

Trial ==
    /\ pc = "collect"
    /\ Len(intervals) < MaxSamples
    /\ \E interval \in TrialResults : intervals' = Append(intervals, interval)
    /\ UNCHANGED <<comp, nbVars, calcVars, pc, out, confN, sided, aprev,
                   sampler, variance, ansatz>>

Aggregate ==
    /\ pc \in {"collect", "collected"}
    /\ out' = aggregate(intervals, confN, sided)
    /\ pc' = "aggregated"
    /\ UNCHANGED <<comp, nbVars, calcVars, aggVars, sampler, variance, ansatz>>

Remember ==
    /\ pc = "aggregated"
    /\ ~aprev.set
    /\ aprev' = [set |-> TRUE, intervals |-> intervals, confN |-> confN,
                 sided |-> sided, out |-> out]
    /\ out' = NoOutcome
    /\ pc' = "collected"
    /\ UNCHANGED <<comp, nbVars, calcVars, sampler, variance, ansatz>>

Reorder ==
    /\ Remember
    /\ \E p \in Permutations(1..Len(intervals)) :
           intervals' = [i \in 1..Len(intervals) |-> intervals[p[i]]]
    /\ UNCHANGED <<confN, sided>>

Remeasure ==
    /\ Remember
    /\ \E i \in 1..Len(intervals), interval \in TrialResults :
           intervals' = [intervals EXCEPT ![i] = interval]
    /\ UNCHANGED <<confN, sided>>

Relevel ==
    /\ Remember
    /\ confN' \in ConfLevels
    /\ sided' \in Sides
    /\ UNCHANGED intervals

(* The noisy-VQE cell: the loop appends NumTrials intervals, then the      *)
(* statistics are computed.                                                *)

CellTrial ==
    /\ pc = "loop"
    /\ Len(intervals) < NumTrials
    /\ intervals' = Append(intervals, Sample(sampler, Len(intervals) + 1))
    /\ UNCHANGED <<comp, nbVars, calcVars, pc, out, confN, sided, aprev,
                   sampler, variance, ansatz>>

CellStats ==
    /\ pc = "loop"
    /\ Len(intervals) = NumTrials
    /\ out' = CellStatistics(intervals)
    /\ pc' = "statistics"
    /\ UNCHANGED <<comp, nbVars, calcVars, aggVars, sampler, variance, ansatz>>

(* The cell "VQE: Other Methods": for U in [U1, U2], minimize, then        *)
(* evaluate V at the optimized variables.                                  *)

EvaluateVariance ==
    /\ pc = "minimized"
    /\ variance' = OtherMethodsVariance(meanN, meansqN)
    /\ pc' = "evaluated"
    /\ UNCHANGED <<comp, nbVars, calcVars, out, aggVars, sampler, ansatz>>

NextAnsatz ==
    /\ pc = "evaluated"
    /\ ansatz = "U1"
    /\ ansatz' = "U2"
    /\ meanN' \in MeanNums
    /\ \E v \in 0..VarOver : meansqN' = meanN' * meanN' + v
    /\ pc' = "minimized"
    /\ UNCHANGED <<comp, nbVars, kind, epsN, prev, out, aggVars, sampler,
                   variance>>

(* The notebook: a statement whose names are all bound runs and binds its  *)
(* names; one that reads an unbound name raises NameError, which ends its  *)
(* cell; the next cell is then run.                                        *)

NotebookVars == <<calcVars, out, aggVars, sampler, variance, ansatz>>

Running == pc = "cells" /\ cell <= Len(Cells)

\* The position after the statement at (c, s) has run.
Advance(c, s) ==
    IF s < Len(Cells[c])
    THEN /\ cell' = c
         /\ stmt' = s + 1
    ELSE /\ cell' = c + 1
         /\ stmt' = 1

Execute ==
    /\ Running
    /\ Unbound(Cells[cell][stmt], bound) = {}
    /\ bound' = bound \cup Cells[cell][stmt].writes
    /\ Advance(cell, stmt)
    /\ UNCHANGED <<comp, pc, errors, NotebookVars>>

RaiseNameError ==
    /\ Running
    /\ Unbound(Cells[cell][stmt], bound) # {}
    /\ errors' = Append(errors, [line |-> Cells[cell][stmt].line,
                                 names |-> Unbound(Cells[cell][stmt], bound)])
    /\ cell' = cell + 1
    /\ stmt' = 1
    /\ UNCHANGED <<comp, pc, bound, NotebookVars>>

Next ==
    \/ Execute
    \/ RaiseNameError
    \/ Call
    \/ CallAgain
    \/ Trial
    \/ Aggregate
    \/ Reorder
    \/ Remeasure
    \/ Relevel
    \/ CellTrial
    \/ CellStats
    \/ EvaluateVariance
    \/ NextAnsatz

Spec == Init /\ [][Next]_vars

-----------------------------------------------------------------------------
(* Vocabulary of the properties.                                           *)

Done == pc = "done"

Raised(o, error) == o.tag = "error" /\ o.error = error

Returned(o) == o.tag = "ok"

EpsilonInUnitInterval == 0 <= epsN /\ epsN <= Scale

MeanInUnitInterval == 0 - Scale <= meanN /\ meanN <= Scale

\* lower == upper == mean
ZeroWidthAtMean(o) ==
    /\ RealEqRat(o.lower, Mean(meanN))
    /\ RealEqRat(o.upper, Mean(meanN))

\* lower <= point_estimate <= upper, the point estimate being rational
Ordered(o) ==
    /\ RatEq(o.point_estimate.rad, Zero)
    /\ RealLeqRat(o.lower, o.point_estimate.rat)
    /\ RatLeqReal(o.point_estimate.rat, o.upper)

\* The interval is centre -/+ radius with one centre and one radius.
Symmetric(o) ==
    /\ RatEq(o.lower.rat, o.upper.rat)
    /\ RatEq(o.lower.rad, o.upper.rad)
    /\ o.lower.sgn = 0 - 1
    /\ o.upper.sgn = 1
    /\ ~o.lower.nan
    /\ ~o.upper.nan

\* upper - lower of o1 is at most upper - lower of o2: both widths are
\* twice a square root, compared by their radicands.
WidthLeq(o1, o2) ==
    /\ Symmetric(o1)
    /\ Symmetric(o2)
    /\ RatLeq(o1.upper.rad, o2.upper.rad)

-----------------------------------------------------------------------------
UpperSideOutOfRange ==
    (/\ Done
     /\ kind = "expectation-value"
     /\ EpsilonInUnitInterval
     /\ 2 * epsN > Scale - meanN)
    => /\ Raised(out, "OutOfRangeError")
       /\ out.side = "upper"
       /\ out.max_epsilon[1] * 2 * Scale = (Scale - meanN) * out.max_epsilon[2]

\* mean = 1/2 and epsilon = 1/2 > 1/4: only the upper threshold is exceeded
UpperSideReported ==
    /\ Done
    /\ kind = "expectation-value"
    /\ 2 * meanN = Scale
    /\ 2 * epsN = Scale
    /\ Raised(out, "OutOfRangeError")
    /\ out.side = "upper"

(* C3 as stated: expectation-value method, epsilon in [0,1] above          *)
(* (1 + mean)/2: OutOfRangeError naming the lower side and carrying        *)
(* (1 + mean)/2, also when (1 - mean)/2 is exceeded by the same epsilon.   *)
LowerSideOutOfRangeAlways ==
    (/\ Done
     /\ kind = "expectation-value"
     /\ EpsilonInUnitInterval
     /\ 2 * epsN > Scale + meanN)
    => /\ Raised(out, "OutOfRangeError")
       /\ out.side = "lower"
       /\ out.max_epsilon[1] * 2 * Scale = (Scale + meanN) * out.max_epsilon[2]

(* C3 amended: expectation-value method, epsilon in [0,1] above            *)
(* (1 + mean)/2: the call raises OutOfRangeError; it names the lower side  *)
(* and carries (1 + mean)/2 when epsilon <= (1 - mean)/2, and names the    *)
(* upper side and carries (1 - mean)/2 when that threshold is exceeded too.*)
LowerSideOutOfRange ==
    (/\ Done
     /\ kind = "expectation-value"
     /\ EpsilonInUnitInterval
     /\ 2 * epsN > Scale + meanN)
    => /\ Raised(out, "OutOfRangeError")
       /\ IF 2 * epsN > Scale - meanN
          THEN /\ out.side = "upper"
               /\ out.max_epsilon[1] * 2 * Scale
                      = (Scale - meanN) * out.max_epsilon[2]
          ELSE /\ out.side = "lower"
               /\ out.max_epsilon[1] * 2 * Scale
                      = (Scale + meanN) * out.max_epsilon[2]

\* mean = -1/2 and epsilon = 1/2 > 1/4: only the lower threshold is exceeded
LowerSideReported ==
    /\ Done
    /\ kind = "expectation-value"
    /\ 2 * meanN = 0 - Scale
    /\ 2 * epsN = Scale
    /\ Raised(out, "OutOfRangeError")
    /\ out.side = "lower"

(* C4: expectation-value method, mean in [-1,1] and epsilon = 0: the call  *)
(* succeeds and returns lower == upper == mean.                            *)
ZeroEpsilonZeroWidth ==
    (/\ Done
     /\ kind = "expectation-value"
     /\ MeanInUnitInterval
     /\ epsN = 0)
    => Returned(out) /\ ZeroWidthAtMean(out)

\* mean = 1/2, epsilon = 0
ZeroEpsilonCall ==
    /\ Done
    /\ kind = "expectation-value"
    /\ 2 * meanN = Scale
    /\ epsN = 0
    /\ Returned(out)

(* C5: every successful call of the expectation-value method and of the    *)
(* gramian-eigenvalue method returns lower <= point_estimate <= upper.     *)
PointEstimateEnclosed ==
    (/\ Done
     /\ kind \in {"expectation-value", "gramian-eigenvalue"}
     /\ Returned(out))
    => Ordered(out)

\* a negative mean with epsilon at its lower-side threshold, width > 0
EnclosedAtThreshold ==
    /\ Done
    /\ kind = "expectation-value"
    /\ meanN < 0
    /\ epsN > 0
    /\ 2 * epsN = Scale + meanN
    /\ Returned(out)
    /\ out.lower.rad[1] > 0

(* C6: expectation-value method, one mean, two epsilons e1 <= e2 that both *)
(* pass both validity thresholds: the width at e2 is at least the width at *)
(* e1.                                                                     *)
WidthMonotoneInEpsilon ==
    (/\ Done
     /\ kind = "expectation-value"
     /\ prev.set
     /\ Returned(prev.out)
     /\ Returned(out)
     /\ prev.epsN <= epsN)
    => WidthLeq(prev.out, out)

\* two successful calls, the second with a larger epsilon and a wider interval
WidthGrew ==
    /\ Done
    /\ kind = "expectation-value"
    /\ prev.set
    /\ Returned(prev.out)
    /\ Returned(out)
    /\ 0 < prev.epsN
    /\ prev.epsN < epsN
    /\ RatLt(prev.out.upper.rad, out.upper.rad)

(* C7: gramian-eigenvalue method, mean_sq == mean^2 and epsilon in [0,1):  *)
(* the call returns lower == upper == mean.                                *)
EigenstateZeroWidth ==
    (/\ Done
     /\ kind = "gramian-eigenvalue"
     /\ meansqN = meanN * meanN
     /\ 0 <= epsN
     /\ epsN < Scale)
    => Returned(out) /\ ZeroWidthAtMean(out)

\* zero variance, a mean that is neither 0 nor 1, and 0 < epsilon < 1
EigenstateCall ==
    /\ Done
    /\ kind = "gramian-eigenvalue"
    /\ meansqN = meanN * meanN
    /\ meanN = 2
    /\ 0 < epsN
    /\ epsN < Scale
    /\ Returned(out)

(* C8: gramian-expectation method, epsilon in [0,1] and mean <= 0: the     *)
(* call raises DomainError and returns no bound; the division by mean is   *)
(* not evaluated.                                                          *)
NonPositiveMeanRejected ==
    (/\ Done
     /\ kind = "gramian-expectation"
     /\ EpsilonInUnitInterval
     /\ meanN <= 0)
    => Raised(out, "DomainError")

\* mean = 0, where the division would fail
ZeroMeanRejected ==
    /\ Done
    /\ kind = "gramian-expectation"
    /\ EpsilonInUnitInterval
    /\ meanN = 0
    /\ Raised(out, "DomainError")

PointEstimateIsMean ==
    (Done /\ Returned(out)) => RealEqRat(out.point_estimate, Mean(meanN))

\* a successful call whose lower bound and interval centre both differ
\* from the mean
PointEstimateKept ==
    /\ Done
    /\ Returned(out)
    /\ epsN > 0
    /\ meanN > 0
    /\ ~RealEqRat(out.lower, Mean(meanN))
    /\ ~RatEq(Center(meanN, epsN), Mean(meanN))
    /\ RealEqRat(out.point_estimate, Mean(meanN))

-----------------------------------------------------------------------------
(* Vocabulary of the aggregator's properties.                              *)

Aggregated == pc = "aggregated"

\* The trials have been aggregated a second time.
AggregatedAgain == Aggregated /\ aprev.set

(* C11: aggregate fails with InsufficientSamplesError on a sequence of     *)
(* zero or one intervals, whatever the confidence level; on two or more    *)
(* intervals with a valid confidence level it does not.                    *)
FewerThanTwoRejected ==
    Aggregated =>
        /\ Len(intervals) < 2 => out = InsufficientSamplesError
        /\ (Len(intervals) >= 2 /\ ValidConfidence(confN))
               => ~Raised(out, "InsufficientSamplesError")

\* one interval, and a confidence level that is itself invalid
OneIntervalRejected ==
    /\ Aggregated
    /\ Len(intervals) = 1
    /\ ~ValidConfidence(confN)
    /\ Raised(out, "InsufficientSamplesError")

\* final_lower <= mean(lowers) and final_upper >= mean(uppers)
NotNarrowed(o, ivs) ==
    /\ RealLeqRat(o.lower, SampleMean(Lowers(ivs)))
    /\ RatLeqReal(SampleMean(Uppers(ivs)), o.upper)

\* The critical value is not negative: any two-sided level, or a one-sided
\* level of at least 1/2.
UpperHalfLevel(c, s) == s = "two-sided" \/ c >= 50

SameEndpoints(ivs1, ivs2, k) ==
    /\ Len(ivs1) = Len(ivs2)
    /\ \A i \in 1..Len(ivs1) : ivs1[i][k] = ivs2[i][k]

\* Two aggregations of as many intervals with one critical value.
SameCriticalValue ==
    /\ Len(intervals) = Len(aprev.intervals)
    /\ CriticalValue(confN, sided, Len(intervals) - 1)
           = CriticalValue(aprev.confN, aprev.sided, Len(intervals) - 1)

BothReturned == AggregatedAgain /\ Returned(out) /\ Returned(aprev.out)

(* C13: of two successful aggregations, those with the same lower          *)
(* endpoints, length and critical value have the same final_lower, those   *)
(* with the same upper endpoints, length and critical value the same       *)
(* final_upper, and the returned mid is the mean of the point estimates,   *)
(* so it is the same whenever the point estimates are, whatever the level  *)
(* and the endpoints.                                                      *)
EndpointsIndependent ==
    BothReturned =>
        /\ (SameEndpoints(intervals, aprev.intervals, 1) /\ SameCriticalValue)
               => out.lower = aprev.out.lower
        /\ (SameEndpoints(intervals, aprev.intervals, 3) /\ SameCriticalValue)
               => out.upper = aprev.out.upper
        /\ SameEndpoints(intervals, aprev.intervals, 2)
               => out.point_estimate = aprev.out.point_estimate
        /\ RealEqRat(out.point_estimate,
                     SampleMean([i \in 1..Len(intervals) |->
                                     Value(intervals[i][2])]))

\* a trial replaced by one with the same lower endpoint and another upper
\* endpoint: final_lower, off the mean, is kept and final_upper is not
LowerKeptUpperMoved ==
    /\ BothReturned
    /\ SameCriticalValue
    /\ SameEndpoints(intervals, aprev.intervals, 1)
    /\ ~SameEndpoints(intervals, aprev.intervals, 3)
    /\ out.lower = aprev.out.lower
    /\ out.upper # aprev.out.upper
    /\ ~RatEq(out.lower.rad, Zero)

Taxonomy ==
    {"ValidationError", "DomainError", "OutOfRangeError",
     "InsufficientSamplesError"}

\* A result, or one error of the taxonomy, never both.
ResultOrTaxonomyError(o) ==
    \/ o.tag = "ok" /\ o.error = "none"
    \/ o.tag = "error" /\ o.error \in Taxonomy

\* The preconditions of the three methods on the caller's inputs.
MethodPreconditions ==
    /\ EpsilonInUnitInterval
    /\ kind = "expectation-value" =>
           /\ 2 * epsN <= Scale - meanN
           /\ 2 * epsN <= Scale + meanN
    /\ kind = "gramian-expectation" => meanN > 0
    /\ kind = "gramian-eigenvalue" => epsN < Scale

\* The preconditions of the aggregator on the caller's inputs.
AggregatorPreconditions ==
    /\ Len(intervals) >= 2
    /\ 0 < confN
    /\ confN < 100

(* C14: every call of a method and every aggregation ends in a result or   *)
(* in exactly one error of the taxonomy (ValidationError, DomainError,     *)
(* OutOfRangeError, InsufficientSamplesError), and in a result only when   *)
(* every precondition of the operation holds.                              *)
ResultOnlyWhenValid ==
    /\ Done =>
           /\ ResultOrTaxonomyError(out)
           /\ Returned(out) => MethodPreconditions
    /\ Aggregated =>
           /\ ResultOrTaxonomyError(out)
           /\ Returned(out) => AggregatorPreconditions

\* the same trials aggregated to a result, then refused at the level 1
InvalidLevelAfterResult ==
    /\ AggregatedAgain
    /\ Returned(aprev.out)
    /\ Len(intervals) >= 2
    /\ confN = 100
    /\ Raised(out, "ValidationError")

(* C15: gramian-eigenvalue method, mean_sq < mean^2 and epsilon in [0,1):  *)
(* the variance is clamped to 0 before the square root, the call returns   *)
(* lower == upper == mean and no bound is the square root of a negative    *)
(* number.                                                                 *)
NegativeVarianceClamped ==
    (/\ Done
     /\ kind = "gramian-eigenvalue"
     /\ meansqN < meanN * meanN
     /\ 0 <= epsN
     /\ epsN < Scale)
    => /\ Returned(out)
       /\ ~out.lower.nan
       /\ ~out.upper.nan
       /\ ZeroWidthAtMean(out)

\* mean_sq < mean^2 with a positive epsilon
NegativeVarianceCall ==
    /\ Done
    /\ kind = "gramian-eigenvalue"
    /\ meansqN < meanN * meanN
    /\ 0 < epsN
    /\ epsN < Scale
    /\ Returned(out)
    /\ ZeroWidthAtMean(out)

-----------------------------------------------------------------------------
(* Properties of the first notebook's cell "VQE: Other Methods".           *)

Evaluated == comp = "other-methods" /\ pc = "evaluated"

(* C16: the variance evaluated at the optimized variables is the second    *)
(* moment minus the squared first moment, <H^2> - <H>^2, and is not        *)
(* negative, whatever the optimized state.                                 *)
VarianceIsSecondMomentMinusSquare ==
    Evaluated =>
        /\ RatEq(variance, RatSub(MeanSq(meansqN), RatSq(Mean(meanN))))
        /\ RatLeq(Zero, variance)

-----------------------------------------------------------------------------
(* Properties of the noisy-VQE cell.                                       *)

InLoop == comp = "noisy-cell" /\ pc = "loop"

StatisticsComputed == comp = "noisy-cell" /\ pc = "statistics"

(* C17: the cell computes its statistics only after the loop has appended  *)
(* every interval: where they are computed, the number of intervals is 30, *)
(* the divisor under the square root, and the 29 degrees of freedom are    *)
(* that number minus one; nothing is computed while the loop runs.         *)
SampleSizeMatchesDivisor ==
    /\ StatisticsComputed =>
           /\ Len(intervals) = 30
           /\ Len(intervals) = Divisor
           /\ DegreesOfFreedom = Len(intervals) - 1
    /\ InLoop => out = NoOutcome

\* the statistics of thirty trials that were not all alike
ThirtyTrialsSummarized ==
    /\ StatisticsComputed
    /\ Returned(out)
    /\ Len(intervals) = 30
    /\ sampler[1] # sampler[2]
    /\ ~RatEq(out.lower.rad, Zero)

-----------------------------------------------------------------------------
(* Further properties of the aggregator.                                   *)

Occurrences(ivs, interval) ==
    Cardinality({i \in 1..Len(ivs) : ivs[i] = interval})

\* Two sequences hold the same intervals the same number of times.
SameMultiset(ivs1, ivs2) ==
    /\ Len(ivs1) = Len(ivs2)
    /\ \A interval \in TrialResults :
           Occurrences(ivs1, interval) = Occurrences(ivs2, interval)

-----------------------------------------------------------------------------
(* Further properties of the gramian-expectation method.                   *)

\* mean > 0, mean_sq >= mean^2 and epsilon in [0, 1]
GramianExpectationCall ==
    /\ Done
    /\ kind = "gramian-expectation"
    /\ meanN > 0
    /\ meansqN >= meanN * meanN
    /\ EpsilonInUnitInterval

(* C19 as stated: gramian-expectation method, for every mean > 0, every    *)
(* mean_sq >= mean^2 and every epsilon in [0,1] the returned lower bound   *)
(* does not exceed the point estimate, lower <= mean.                      *)
LowerAtMostMean ==
    GramianExpectationCall
        => (Returned(out) /\ RealLeqRat(out.lower, Mean(meanN)))

(* C19 amended: gramian-expectation method, for every mean > 0, every      *)
(* mean_sq with mean^2 <= mean_sq <= 2 mean^2 (a variance of at most       *)
(* mean^2) and every epsilon in [0,1], lower <= mean; with a larger        *)
(* variance the term epsilon mean_sq / mean lifts the bound above the      *)
(* mean for epsilon near 1.                                                *)
LowerAtMostMeanSmallVariance ==
    (GramianExpectationCall /\ meansqN <= 2 * meanN * meanN)
        => (Returned(out) /\ RealLeqRat(out.lower, Mean(meanN)))

\* a positive variance of at most mean^2 and a positive epsilon: the bound
\* is strictly below the mean
LowerBelowMean ==
    /\ GramianExpectationCall
    /\ meansqN > meanN * meanN
    /\ meansqN <= 2 * meanN * meanN
    /\ epsN > 0
    /\ Returned(out)
    /\ RealLeqRat(out.lower, Mean(meanN))
    /\ ~RatLeqReal(Mean(meanN), out.lower)

\* Every interval of the sequence has lower <= upper.
InputsOrdered(ivs) == \A i \in 1..Len(ivs) : ivs[i][1] <= ivs[i][3]

-----------------------------------------------------------------------------
(* Further properties of the expectation-value method.                     *)

\* 0 <= epsilon <= (1 - mean)/2 and epsilon <= (1 + mean)/2
WithinBothThresholds ==
    /\ 0 <= epsN
    /\ 2 * epsN <= Scale - meanN
    /\ 2 * epsN <= Scale + meanN

(* C21: expectation-value method, for every mean in [-1,1] and every       *)
(* epsilon within both validity thresholds, both returned bounds stay in   *)
(* the range of the bounded observable: -1 <= lower and upper <= 1.        *)
BoundsWithinObservableRange ==
    (/\ Done
     /\ kind = "expectation-value"
     /\ MeanInUnitInterval
     /\ WithinBothThresholds)
    => /\ Returned(out)
       /\ RatLeqReal(<<0 - 1, 1>>, out.lower)
       /\ RealLeqRat(out.upper, One)

\* a positive epsilon at the upper threshold of a mean strictly inside the
\* range: the upper bound reaches 1 and the lower bound stays above -1
UpperBoundReachesOne ==
    /\ Done
    /\ kind = "expectation-value"
    /\ MeanInUnitInterval
    /\ WithinBothThresholds
    /\ epsN > 0
    /\ 2 * epsN = Scale - meanN
    /\ Returned(out)
    /\ ~RatEq(out.upper.rad, Zero)
    /\ RealEqRat(out.upper, One)
    /\ RatLeqReal(<<0 - 1, 1>>, out.lower)

-----------------------------------------------------------------------------
(* Properties of the Madness-interface notebook.                           *)

(* C22: running the code cells once each, top to bottom, in a fresh        *)
(* kernel, every name a statement reads has been bound by an earlier       *)
(* statement, so no cell raises NameError; in particular mol is bound      *)
(* before line 145 reads mol.n_electrons and before line 175 calls         *)
(* mol.make_ansatz.                                                        *)
EveryNameBoundBeforeRead ==
    /\ Running => Unbound(Cells[cell][stmt], bound) = {}
    /\ errors = <<>>

=============================================================================
